---------------------------- MODULE Spec2Model ----------------------------
(***************************************************************************)
(* State-machine model of src/extension/background.js: the service worker  *)
(* that owns the shared WebSocket to the native audio-capture process,     *)
(* routes inbound native messages into chrome.storage and to the popup     *)
(* port, and relays popup commands to the native process.                  *)
(*                                                                         *)
(* Every handler of the script is one action: the handler body and the     *)
(* promise continuations (microtasks) it triggers run to completion before *)
(* any other event is dispatched.  The browser is the environment: it      *)
(* opens, fails and closes WebSockets, serves chrome.storage requests in   *)
(* FIFO order per storage area, and delivers port and alarm events.        *)
(*                                                                         *)
(* Strings are sequences of tokens; the absent value of a storage key or   *)
(* of a message field is the token "undefined" (fields) or the sequence    *)
(* undefined (strings).                                                    *)
(***************************************************************************)
EXTENDS Integers, Sequences, FiniteSets, TLC

\* ------------------------------------------------------------------ bounds
MaxWs == 3          \* WebSocket objects the worker may construct
MaxPorts == 2       \* popup ports that may connect
MaxFrames == 2      \* inbound frames the native process sends
MaxCommands == 2    \* commands the popups post
MaxAlarms == 1      \* health-check alarm firings
MaxResets == 1      \* onStartup / onInstalled firings

\* The runs explored: every run draws one budget of environment events, an
\* upper limit per kind of event.  Each family of runs stresses one part of
\* the worker (connection attempts, the router, the observer channel, the
\* health-check alarm, the lifecycle resets, commands racing with frames);
\* within a family every interleaving of the events is explored.
Budgets ==
    {[ws |-> MaxWs, ports |-> 1, frames |-> 0, commands |-> 2,
      alarms |-> 0, resets |-> 0],
     [ws |-> 2, ports |-> 1, frames |-> 0, commands |-> MaxCommands,
      alarms |-> 0, resets |-> 0],
     [ws |-> 1, ports |-> 1, frames |-> MaxFrames, commands |-> 0,
      alarms |-> 0, resets |-> 0],
     [ws |-> 1, ports |-> MaxPorts, frames |-> 1, commands |-> 0,
      alarms |-> 0, resets |-> 0],
     [ws |-> 2, ports |-> 1, frames |-> 2, commands |-> 0,
      alarms |-> MaxAlarms, resets |-> 0],
     [ws |-> 1, ports |-> 1, frames |-> 1, commands |-> 0,
      alarms |-> 0, resets |-> MaxResets],
     [ws |-> 1, ports |-> 1, frames |-> 2, commands |-> 1,
      alarms |-> 0, resets |-> 0]}

\* --------------------------------------------------------------- constants
NATIVE_WS_URL == "ws://localhost:8766"
ALARM_HEALTH_CHECK == "websocket-health-check"
ICONS == [idle |-> "mic-idle", recording |-> "mic-recording", error |-> "mic-error"]

\* readyState values of a WebSocket; NONE: not constructed yet
NONE == "NONE"
CONNECTING == "CONNECTING"
OPEN == "OPEN"
CLOSING == "CLOSING"
CLOSED == "CLOSED"

WsIds == 1..MaxWs
PortIds == 1..MaxPorts

\* ----------------------------------------------------------------- strings
undefined == <<"undefined">>
NL == "\n"

\* JavaScript truthiness of a string-or-undefined value
Truthy(s) == s # undefined /\ s # <<>>

\* a || '' for a string-or-undefined value
OrEmpty(s) == IF Truthy(s) THEN s ELSE <<>>

DigitStr == <<"0", "1", "2", "3", "4", "5", "6", "7", "8", "9">>

TwoDigits(n) == <<DigitStr[(n \div 10) + 1], DigitStr[(n % 10) + 1]>>

\* new Date().toLocaleTimeString('vi-VN') for the second-of-day now
ToLocaleTimeString(now) ==
    TwoDigits(now \div 3600) \o <<":">> \o TwoDigits((now \div 60) % 60)
        \o <<":">> \o TwoDigits(now % 60)

\* wall-clock readings (seconds of the day) the handlers may observe
Times == {45296}

\* texts carried by transcript and summary messages
Texts == {<<"a">>, <<"b">>}

\* the lines of a string: the maximal runs of tokens between NL tokens
RECURSIVE SplitLines(_)
SplitLines(s) ==
    IF \A i \in 1..Len(s) : s[i] # NL THEN <<s>>
    ELSE LET k == CHOOSE i \in 1..Len(s) :
                      s[i] = NL /\ \A j \in 1..(i - 1) : s[j] # NL
         IN  <<SubSeq(s, 1, k - 1)>> \o SplitLines(SubSeq(s, k + 1, Len(s)))

\* ------------------------------------------------------- inbound messages
\* A parsed JSON value.  json is "object", "scalar" (number, string,
\* boolean or array: every property tested reads as undefined) or "null".
Msg(action, status, type, rec, text, message) ==
    [json |-> "object", action |-> action, status |-> status, type |-> type,
     is_recording |-> rec, text |-> text, message |-> message]

StatusTrue == Msg("get_status", "undefined", "undefined", "true", undefined, "undefined")
StatusFalse == Msg("get_status", "undefined", "undefined", "false", undefined, "undefined")
StatusString == Msg("get_status", "undefined", "undefined", "'true'", undefined, "undefined")
StatusAbsent == Msg("get_status", "undefined", "undefined", "undefined", undefined, "undefined")
StatusNumber == Msg("get_status", "undefined", "undefined", "1", undefined, "undefined")
NativeError == Msg("undefined", "error", "undefined", "undefined", undefined, "device lost")
StatusTrueError == Msg("get_status", "error", "undefined", "true", undefined, "capture failed")
FinalError(t) == Msg("transcript", "error", "final", "undefined", t, "stt failed")
Final(t) == Msg("transcript", "undefined", "final", "undefined", t, "undefined")
Partial(t) == Msg("transcript", "undefined", "partial", "undefined", t, "undefined")
Summary(t) == Msg("summary_update", "undefined", "undefined", "undefined", t, "undefined")
SummaryError(t) == Msg("summary_update", "error", "undefined", "undefined", t, "summary failed")
Devices == Msg("get_devices", "success", "undefined", "undefined", undefined, "undefined")
ScalarValue == [Msg("undefined", "undefined", "undefined", "undefined", undefined, "undefined")
                    EXCEPT !.json = "scalar"]
NullValue == [ScalarValue EXCEPT !.json = "null"]

\* Text frames the native endpoint may deliver: the JSON text of a value,
\* or a text that is not JSON at all.
NotJson == [text |-> "not json", value |-> NullValue]

Frames ==
    {[text |-> "json", value |-> v] :
        v \in {StatusTrue, StatusFalse, StatusString, StatusAbsent, StatusNumber,
               NativeError, StatusTrueError, ScalarValue, NullValue, Devices}
              \cup {Final(t) : t \in Texts} \cup {Summary(t) : t \in Texts}
              \cup {SummaryError(t) : t \in Texts}}
    \cup {NotJson}

\* no message event handled yet
NoFrame == [text |-> "none", value |-> NullValue]

\* JSON.parse(event.data): throws a SyntaxError on a text that is not JSON
JSONParse(frame) ==
    IF frame.text = "json" THEN [threw |-> FALSE, value |-> frame.value]
    ELSE [threw |-> TRUE, value |-> NullValue]

\* ------------------------------------------------------ outbound commands
Command(action, data) == [action |-> action, data |-> data]

\* JSON.stringify(message): a key whose value is undefined is omitted
JSONStringify(message) ==
    IF message.data = "undefined" THEN <<"action", message.action>>
    ELSE <<"action", message.action, "data", message.data>>

\* --------------------------------------------------------------- envelopes
NativeAppMessage(data) == [type |-> "NATIVE_APP_MESSAGE", data |-> data]

ConnectError ==
    [json |-> "object", action |-> "undefined", status |-> "error",
     type |-> "undefined", is_recording |-> "undefined", text |-> undefined,
     message |-> "Khong the ket noi voi ung dung native."]

Cleared == Msg("transcript", "undefined", "clear", "undefined", undefined, "undefined")

InitialState(isRecording, transcript, summary) ==
    [type |-> "INITIAL_STATE", isRecording |-> isRecording,
     transcript |-> transcript, summary |-> summary]

\* ------------------------------------------------------------------- state
VARIABLES
    nativeWebSocket,    \* id of the shared WebSocket, 0 for null
    connectionPromise,  \* id of the WebSocket the pending promise waits for, 0 for null
    popupPort,          \* id of the port broadcasts go to, 0 for null
    readyState,         \* readyState of every WebSocket object
    awaiting,           \* sendMessageToNative calls suspended on a connection promise
    outbound,           \* frames transmitted to the native process, per WebSocket
    portState,          \* NONE, OPEN or CLOSED for every port
    portInbox,          \* envelopes posted to every port, in order
    session,            \* chrome.storage.session contents
    local,              \* chrome.storage.local contents
    sessionQ,           \* chrome.storage.session requests not yet served
    localQ,             \* chrome.storage.local requests not yet served
    alarm,              \* TRUE while the health-check alarm exists
    icon,               \* icon last set by updateIcon
    badge,              \* badge text last set by updateBadge
    budget,             \* environment events the run may still take, per kind
    finals,             \* history: texts of the final transcript messages routed
                        \* since the transcript was last cleared or reset
    wiped,              \* history: a CLEAR_TRANSCRIPT or a reset has been handled
    lastFrame           \* history: the frame of the last message event handled

vars == <<nativeWebSocket, connectionPromise, popupPort, readyState, awaiting,
          outbound, portState, portInbox, session, local, sessionQ, localQ,
          alarm, icon, badge, budget, finals, wiped, lastFrame>>

\* the state as one record, so that the helpers of the script are operators
\* from state to state
Cur ==
    [nativeWebSocket |-> nativeWebSocket, connectionPromise |-> connectionPromise,
     popupPort |-> popupPort, readyState |-> readyState, awaiting |-> awaiting,
     outbound |-> outbound, portState |-> portState, portInbox |-> portInbox,
     session |-> session, local |-> local, sessionQ |-> sessionQ,
     localQ |-> localQ, alarm |-> alarm, icon |-> icon, badge |-> badge,
     budget |-> budget, finals |-> finals, wiped |-> wiped,
     lastFrame |-> lastFrame]

Becomes(m) ==
    /\ nativeWebSocket' = m.nativeWebSocket
    /\ connectionPromise' = m.connectionPromise
    /\ popupPort' = m.popupPort
    /\ readyState' = m.readyState
    /\ awaiting' = m.awaiting
    /\ outbound' = m.outbound
    /\ portState' = m.portState
    /\ portInbox' = m.portInbox
    /\ session' = m.session
    /\ local' = m.local
    /\ sessionQ' = m.sessionQ
    /\ localQ' = m.localQ
    /\ alarm' = m.alarm
    /\ icon' = m.icon
    /\ badge' = m.badge
    /\ budget' = m.budget
    /\ finals' = m.finals
    /\ wiped' = m.wiped
    /\ lastFrame' = m.lastFrame

Init ==
    /\ nativeWebSocket = 0
    /\ connectionPromise = 0
    /\ popupPort = 0
    /\ readyState = [w \in WsIds |-> NONE]
    /\ awaiting = <<>>
    /\ outbound = [w \in WsIds |-> <<>>]
    /\ portState = [p \in PortIds |-> NONE]
    /\ portInbox = [p \in PortIds |-> <<>>]
    /\ session = [isRecording |-> "undefined", config |-> "undefined"]
    /\ local = [transcript |-> undefined, summary |-> undefined]
    /\ sessionQ = <<>>
    /\ localQ = <<>>
    /\ alarm = FALSE
    /\ icon = "default"
    /\ badge = ""
    /\ budget \in Budgets
    /\ finals = <<>>
    /\ wiped = FALSE
    /\ lastFrame = NoFrame

\* ------------------------------------------------- 2. UI and badge management
updateIcon(m, state) ==
    IF state \in DOMAIN ICONS THEN [m EXCEPT !.icon = ICONS[state]] ELSE m

updateBadge(m, isRecording) ==
    IF isRecording
    THEN updateIcon([m EXCEPT !.badge = "REC"], "recording")
    ELSE LET cleared == [m EXCEPT !.badge = ""]
         IN  IF m.nativeWebSocket = 0 \/ m.readyState[m.nativeWebSocket] = OPEN
             THEN updateIcon(cleared, "idle")
             ELSE updateIcon(cleared, "error")

\* ------------------------------------------------------ chrome.storage calls
\* A storage call only queues a request; the browser serves the requests of
\* one storage area in the order they were made.
storageSessionSet(m, items) ==
    [m EXCEPT !.sessionQ = Append(@, [op |-> "set", items |-> items])]

storageLocalSet(m, items) ==
    [m EXCEPT !.localQ = Append(@, [op |-> "set", items |-> items])]

\* the store after a set(items): the keys of items are overwritten
Written(store, items) ==
    [k \in DOMAIN store |-> IF k \in DOMAIN items THEN items[k] ELSE store[k]]

\* the keys chrome.storage.onChanged reports for a set(items)
Changes(store, items) == {k \in DOMAIN items : items[k] # store[k]}

\* ------------------------------------------- 4. port communication with popup
\* mutant: with no observer reference, the envelope goes to a port that is
\* still open
broadcastToUIAnyOpen(m, message) ==
    IF m.popupPort # 0
    THEN IF m.portState[m.popupPort] = OPEN
         THEN [m EXCEPT !.portInbox[m.popupPort] = Append(@, message)]
         ELSE m
    ELSE IF \E p \in PortIds : m.portState[p] = OPEN
    THEN LET p == CHOOSE q \in PortIds : m.portState[q] = OPEN
         IN  [m EXCEPT !.portInbox[p] = Append(@, message)]
    ELSE m

broadcastToUI(m, message) ==
    IF m.popupPort # 0
    THEN IF m.portState[m.popupPort] = OPEN
         THEN [m EXCEPT !.portInbox[m.popupPort] = Append(@, message)]
         ELSE m     \* postMessage threw; the exception is caught and logged
    ELSE m

\* ----------------------------------------- 3. WebSocket connection management
NextWs(m) == Cardinality({w \in WsIds : m.readyState[w] # NONE}) + 1

\* getWebSocket() would construct a WebSocket
StartsAttempt(m) ==
    /\ ~(m.nativeWebSocket # 0 /\ m.readyState[m.nativeWebSocket] = OPEN)
    /\ m.connectionPromise = 0

\* getWebSocket(): the state after the call and the handle it returns, which
\* is either already resolved with a WebSocket or pending on an attempt
getWebSocket(m) ==
    IF m.nativeWebSocket # 0 /\ m.readyState[m.nativeWebSocket] = OPEN
    THEN [m |-> m, settled |-> TRUE, ws |-> m.nativeWebSocket]
    ELSE IF m.connectionPromise # 0
    THEN [m |-> m, settled |-> FALSE, ws |-> m.connectionPromise]
    ELSE LET ws == NextWs(m)
         IN  [m |-> [m EXCEPT !.readyState[ws] = CONNECTING,
                              !.connectionPromise = ws],
              settled |-> FALSE, ws |-> ws]

\* ws.send(data): throws while the socket is CONNECTING, transmits while it
\* is OPEN, and discards the data silently once it is CLOSING or CLOSED
wsSend(m, ws, data) ==
    IF m.readyState[ws] = CONNECTING THEN [threw |-> TRUE, m |-> m]
    ELSE IF m.readyState[ws] = OPEN
    THEN [threw |-> FALSE, m |-> [m EXCEPT !.outbound[ws] = Append(@, data)]]
    ELSE [threw |-> FALSE, m |-> m]

\* mutant: the catch block only forces the flag, the UI is not told
sendFailedSilently(m) == storageSessionSet(m, [isRecording |-> "false"])

\* the catch block of sendMessageToNative
sendFailed(m) ==
    storageSessionSet(broadcastToUI(m, NativeAppMessage(ConnectError)),
                      [isRecording |-> "false"])

\* sendMessageToNative after its await has produced ws
sendResume(m, ws, message) ==
    LET r == wsSend(m, ws, JSONStringify(message))
    IN  IF r.threw THEN sendFailed(r.m) ELSE r.m

sendMessageToNative(m, message) ==
    LET g == getWebSocket(m)
    IN  IF g.settled THEN sendResume(g.m, g.ws, message)
        ELSE [g.m EXCEPT !.awaiting = Append(@, [ws |-> g.ws, message |-> message])]

\* the calls suspended on the promise of ws, and the others, in order
AwaitingOn(m, ws) == SelectSeq(m.awaiting, LAMBDA a : a.ws = ws)
AwaitingElse(m, ws) == SelectSeq(m.awaiting, LAMBDA a : a.ws # ws)

\* resolve(ws): the suspended calls resume in the order they suspended
RECURSIVE resumeAll(_, _, _)
resumeAll(m, ws, calls) ==
    IF calls = <<>> THEN m
    ELSE resumeAll(sendResume(m, ws, Head(calls).message), ws, Tail(calls))

resolve(m, ws) ==
    resumeAll([m EXCEPT !.awaiting = AwaitingElse(m, ws)], ws, AwaitingOn(m, ws))

\* reject(error): every suspended call runs its catch block
RECURSIVE failAll(_, _)
failAll(m, calls) ==
    IF calls = <<>> THEN m ELSE failAll(sendFailed(m), Tail(calls))

reject(m, ws) ==
    failAll([m EXCEPT !.awaiting = AwaitingElse(m, ws)], AwaitingOn(m, ws))

\* cleanup() of a connection attempt
cleanup(m) == [m EXCEPT !.connectionPromise = 0]

\* ws.onopen
onopen(m, ws) ==
    resolve(cleanup(updateIcon([m EXCEPT !.nativeWebSocket = ws], "idle")), ws)

\* mutant: the error handler leaves the in-flight marker in place
onerrorKeepsMarker(m, ws) ==
    reject(updateIcon([m EXCEPT !.nativeWebSocket = 0], "error"), ws)

\* ws.onerror
onerror(m, ws) ==
    reject(cleanup(updateIcon([m EXCEPT !.nativeWebSocket = 0], "error")), ws)

\* mutant: the close handler keeps the shared reference
oncloseKeepsReference(m, ws) ==
    storageSessionSet(updateIcon(m, "error"), [isRecording |-> "false"])

\* ws.onclose, installed by setupWebSocketListeners
onclose(m, ws) ==
    storageSessionSet(updateIcon([m EXCEPT !.nativeWebSocket = 0], "error"),
                      [isRecording |-> "false"])

\* updateTranscriptStorage(newText) up to its await: the read is queued
updateTranscriptStorage(m, newText) ==
    [m EXCEPT !.localQ = Append(@, [op |-> "get", for |-> "append", text |-> newText]),
              !.finals = Append(@, newText)]

\* updateTranscriptStorage after its await, with the transcript it read
transcriptResume(m, currentTranscript, newText, now) ==
    LET timestamp == ToLocaleTimeString(now)
        finalLine == <<"[">> \o timestamp \o <<"]", " ">> \o newText
        updatedTranscript ==
            (IF Truthy(currentTranscript) THEN currentTranscript \o <<NL>> ELSE <<>>)
                \o finalLine
    IN  storageLocalSet(m, [transcript |-> updatedTranscript])

\* mutant: the get_status rule tests is_recording for truthiness
dispatchTruthy(m, message, now) ==
    IF message.action = "get_status"
    THEN storageSessionSet(m, [isRecording |->
             IF message.is_recording \notin {"false", "undefined"}
             THEN "true" ELSE "false"])
    ELSE IF message.status = "error"
    THEN storageSessionSet(m, [isRecording |-> "false"])
    ELSE IF message.action = "transcript" /\ message.type = "final"
    THEN updateTranscriptStorage(m, message.text)
    ELSE IF message.action = "summary_update"
    THEN LET timestamp == ToLocaleTimeString(now)
             finalLine == <<"[">> \o timestamp \o <<"]", " ", NL, " ">> \o message.text
         IN  storageLocalSet(m, [summary |-> finalLine])
    ELSE m

\* the dispatch of ws.onmessage on a parsed message
dispatch(m, message, now) ==
    IF message.action = "get_status"
    THEN storageSessionSet(m, [isRecording |->
             IF message.is_recording = "true" THEN "true" ELSE "false"])
    ELSE IF message.status = "error"
    THEN storageSessionSet(m, [isRecording |-> "false"])
    ELSE IF message.action = "transcript" /\ message.type = "final"
    THEN updateTranscriptStorage(m, message.text)
    ELSE IF message.action = "summary_update"
    THEN LET timestamp == ToLocaleTimeString(now)
             finalLine == <<"[">> \o timestamp \o <<"]", " ", NL, " ">> \o message.text
         IN  storageLocalSet(m, [summary |-> finalLine])
    ELSE m

\* mutant: the catch block forwards the frame it could not read
onmessageForwardsUnreadable(m, frame, now) ==
    LET parsed == JSONParse(frame)
    IN  IF parsed.threw \/ parsed.value.json = "null"
        THEN broadcastToUI(m, NativeAppMessage(parsed.value))
        ELSE broadcastToUI(dispatch(m, parsed.value, now),
                           NativeAppMessage(parsed.value))

\* mutant: a message a dispatch rule consumed is not forwarded
onmessageForwardsUnmatchedOnly(m, frame, now) ==
    LET parsed == JSONParse(frame)
    IN  IF parsed.threw \/ parsed.value.json = "null" THEN m
        ELSE IF dispatch(m, parsed.value, now) # m
        THEN dispatch(m, parsed.value, now)
        ELSE broadcastToUI(m, NativeAppMessage(parsed.value))

\* ws.onmessage: a SyntaxError of JSON.parse and the TypeError of reading a
\* property of null are caught and logged
onmessage(m, frame, now) ==
    LET parsed == JSONParse(frame)
    IN  IF parsed.threw \/ parsed.value.json = "null" THEN m
        ELSE broadcastToUI(dispatch(m, parsed.value, now),
                           NativeAppMessage(parsed.value))

\* -------------------------------------------------------- 5. command handler
UICommands ==
    {[type |-> "START_CAPTURE", config |-> "config"],
     [type |-> "STOP_CAPTURE", config |-> "undefined"],
     [type |-> "CLEAR_TRANSCRIPT", config |-> "undefined"],
     [type |-> "GET_DEVICES", config |-> "undefined"],
     [type |-> "GET_STATUS", config |-> "undefined"]}

\* mutant: START_CAPTURE sets the flag optimistically
handleUICommandOptimistic(m, message) ==
    CASE message.type = "START_CAPTURE" ->
            storageSessionSet(
                sendMessageToNative(m, Command("start_capture", message.config)),
                [isRecording |-> "true"])
      [] message.type = "STOP_CAPTURE" ->
            sendMessageToNative(m, Command("stop_capture", "undefined"))
      [] message.type = "CLEAR_TRANSCRIPT" ->
            broadcastToUI(
                storageLocalSet([m EXCEPT !.finals = <<>>, !.wiped = TRUE],
                                [transcript |-> <<>>, summary |-> <<>>]),
                NativeAppMessage(Cleared))
      [] message.type = "GET_DEVICES" ->
            sendMessageToNative(m, Command("get_devices", "undefined"))
      [] message.type = "GET_STATUS" ->
            sendMessageToNative(m, Command("get_status", "undefined"))
      [] OTHER -> m

\* mutant: CLEAR_TRANSCRIPT clears the transcript only
handleUICommandKeepsSummary(m, message) ==
    CASE message.type = "START_CAPTURE" ->
            sendMessageToNative(m, Command("start_capture", message.config))
      [] message.type = "STOP_CAPTURE" ->
            sendMessageToNative(m, Command("stop_capture", "undefined"))
      [] message.type = "CLEAR_TRANSCRIPT" ->
            broadcastToUI(
                storageLocalSet([m EXCEPT !.finals = <<>>, !.wiped = TRUE],
                                [transcript |-> <<>>]),
                NativeAppMessage(Cleared))
      [] message.type = "GET_DEVICES" ->
            sendMessageToNative(m, Command("get_devices", "undefined"))
      [] message.type = "GET_STATUS" ->
            sendMessageToNative(m, Command("get_status", "undefined"))
      [] OTHER -> m

\* mutant: GET_STATUS also resets the durable summary
handleUICommandStatusResets(m, message) ==
    CASE message.type = "START_CAPTURE" ->
            sendMessageToNative(m, Command("start_capture", message.config))
      [] message.type = "STOP_CAPTURE" ->
            sendMessageToNative(m, Command("stop_capture", "undefined"))
      [] message.type = "CLEAR_TRANSCRIPT" ->
            broadcastToUI(
                storageLocalSet([m EXCEPT !.finals = <<>>, !.wiped = TRUE],
                                [transcript |-> <<>>, summary |-> <<>>]),
                NativeAppMessage(Cleared))
      [] message.type = "GET_DEVICES" ->
            sendMessageToNative(m, Command("get_devices", "undefined"))
      [] message.type = "GET_STATUS" ->
            storageLocalSet(
                sendMessageToNative(m, Command("get_status", "undefined")),
                [summary |-> <<>>])
      [] OTHER -> m

handleUICommand(m, message) ==
    CASE message.type = "START_CAPTURE" ->
            sendMessageToNative(m, Command("start_capture", message.config))
      [] message.type = "STOP_CAPTURE" ->
            sendMessageToNative(m, Command("stop_capture", "undefined"))
      [] message.type = "CLEAR_TRANSCRIPT" ->
            broadcastToUI(
                storageLocalSet([m EXCEPT !.finals = <<>>, !.wiped = TRUE],
                                [transcript |-> <<>>, summary |-> <<>>]),
                NativeAppMessage(Cleared))
      [] message.type = "GET_DEVICES" ->
            sendMessageToNative(m, Command("get_devices", "undefined"))
      [] message.type = "GET_STATUS" ->
            sendMessageToNative(m, Command("get_status", "undefined"))
      [] OTHER -> m

\* a command whose handling calls sendMessageToNative
Relayed(message) ==
    message.type \in {"START_CAPTURE", "STOP_CAPTURE", "GET_DEVICES", "GET_STATUS"}

\* the model can still construct the WebSocket a call of getWebSocket() needs
CanAcquire(m) == StartsAttempt(m) => NextWs(m) <= m.budget.ws

Spend(m, kind) == [m EXCEPT !.budget[kind] = @ - 1]

\* ----------------------------------------------------------- port events
PortNames == {"popup-connection", "other"}

NextPort == Cardinality({p \in PortIds : portState[p] # NONE}) + 1

\* chrome.runtime.onConnect listener, up to the first await of its async
\* block: the read of the session flag is queued
OnConnect(name) ==
    /\ NextPort <= budget.ports
    /\ IF name = "popup-connection"
       THEN LET port == NextPort
            IN  Becomes([Cur EXCEPT !.portState[port] = OPEN,
                                    !.popupPort = port,
                                    !.sessionQ = Append(@, [op |-> "get", port |-> port])])
       ELSE UNCHANGED vars

\* port.onDisconnect listener
OnDisconnect(port) ==
    /\ portState[port] = OPEN
    /\ Becomes([Cur EXCEPT !.portState[port] = CLOSED, !.popupPort = 0])

\* port.onMessage listener
OnPortMessage(port, message) ==
    /\ portState[port] = OPEN
    /\ budget.commands > 0
    /\ Relayed(message) => CanAcquire(Cur)
    /\ Becomes(handleUICommand(Spend(Cur, "commands"), message))

\* --------------------------------------------------------- storage events
\* mutant: the listener creates the alarm but never clears it
onChangedNeverClears(m, changes, newValue) ==
    IF "isRecording" \in changes
    THEN LET isNowRecording == (newValue.isRecording = "true")
         IN  [updateBadge(m, isNowRecording) EXCEPT !.alarm = @ \/ isNowRecording]
    ELSE m

\* chrome.storage.onChanged listener for a change of the session area
onChanged(m, changes, newValue) ==
    IF "isRecording" \in changes
    THEN LET isNowRecording == (newValue.isRecording = "true")
         IN  [updateBadge(m, isNowRecording) EXCEPT !.alarm = isNowRecording]
    ELSE m

\* the async block of the onConnect listener after its first await
attachResume1(m, port, sessionState) ==
    [m EXCEPT !.localQ = Append(@, [op |-> "get", for |-> "attach", port |-> port,
                                    isRecording |-> sessionState.isRecording])]

\* the async block of the onConnect listener after its second await;
\* postMessage on a disconnected port throws and ends the block
attachResume2(m, port, isRecording, localState) ==
    IF m.portState[port] # OPEN THEN m
    ELSE LET posted ==
                 [m EXCEPT !.portInbox[port] = Append(@,
                     InitialState(IF isRecording = "true" THEN "true" ELSE "false",
                                  OrEmpty(localState.transcript),
                                  OrEmpty(localState.summary)))]
         IN  sendMessageToNative(
                 sendMessageToNative(posted, Command("get_status", "undefined")),
                 Command("get_devices", "undefined"))

\* the browser serves the oldest request of chrome.storage.session and the
\* worker handles the outcome (the change event or the result of the read)
SessionServe ==
    /\ sessionQ # <<>>
    /\ LET req == Head(sessionQ)
           m == [Cur EXCEPT !.sessionQ = Tail(@)]
       IN  IF req.op = "set"
           THEN Becomes(onChanged([m EXCEPT !.session = Written(session, req.items)],
                                  Changes(session, req.items), req.items))
           ELSE Becomes(attachResume1(m, req.port, session))

\* the browser serves the oldest request of chrome.storage.local
LocalServe(now) ==
    /\ localQ # <<>>
    /\ LET req == Head(localQ)
           m == [Cur EXCEPT !.localQ = Tail(@)]
       IN  IF req.op = "set"
           THEN Becomes([m EXCEPT !.local = Written(local, req.items)])
           ELSE IF req.for = "append"
           THEN Becomes(transcriptResume(m, local.transcript, req.text, now))
           ELSE /\ portState[req.port] = OPEN => CanAcquire(m)
                /\ Becomes(attachResume2(m, req.port, req.isRecording, local))

\* ----------------------------------------------------------- alarm event
\* chrome.alarms.onAlarm listener
OnAlarm ==
    /\ alarm
    /\ budget.alarms > 0
    /\ CanAcquire(Cur)
    /\ Becomes(sendMessageToNative(Spend(Cur, "alarms"), Command("ping", "undefined")))

\* ------------------------------------------------------ 6. lifecycle hooks
\* mutant: the reset leaves the durable summary alone
resetStateKeepsSummary(m) ==
    updateBadge(
        storageLocalSet(
            storageSessionSet([m EXCEPT !.finals = <<>>, !.wiped = TRUE],
                              [isRecording |-> "false", config |-> "{}"]),
            [transcript |-> <<>>]),
        FALSE)

\* the body shared by the onStartup and the onInstalled listener
resetState(m) ==
    updateBadge(
        storageLocalSet(
            storageSessionSet([m EXCEPT !.finals = <<>>, !.wiped = TRUE],
                              [isRecording |-> "false", config |-> "{}"]),
            [transcript |-> <<>>, summary |-> <<>>]),
        FALSE)

OnStartup ==
    /\ budget.resets > 0
    /\ Becomes(resetState(Spend(Cur, "resets")))

OnInstalled ==
    /\ budget.resets > 0
    /\ Becomes(resetState(Spend(Cur, "resets")))

\* ------------------------------------------------------- WebSocket events
\* the connection is established: open event
WsOpen(ws) ==
    /\ readyState[ws] = CONNECTING
    /\ Becomes(onopen([Cur EXCEPT !.readyState[ws] = OPEN], ws))

\* the connection cannot be established: error event (the close event that
\* follows finds no onclose handler)
WsConnectFail(ws) ==
    /\ readyState[ws] = CONNECTING
    /\ Becomes(onerror([Cur EXCEPT !.readyState[ws] = CLOSED], ws))

\* the closing handshake starts: readyState changes, no event is fired
WsClosing(ws) ==
    /\ readyState[ws] = OPEN
    /\ Becomes([Cur EXCEPT !.readyState[ws] = CLOSING])

\* an established connection is closed: close event, preceded by an error
\* event when the connection failed
WsClose(ws, failed) ==
    /\ readyState[ws] \in {OPEN, CLOSING}
    /\ LET m == [Cur EXCEPT !.readyState[ws] = CLOSED]
       IN  Becomes(onclose(IF failed THEN onerror(m, ws) ELSE m, ws))

\* a text frame arrives: message event
WsMessage(ws, frame, now) ==
    /\ readyState[ws] = OPEN
    /\ budget.frames > 0
    /\ Becomes(onmessage([Spend(Cur, "frames") EXCEPT !.lastFrame = frame], frame, now))

Next ==
    \/ \E name \in PortNames : OnConnect(name)
    \/ \E port \in PortIds : OnDisconnect(port)
    \/ \E port \in PortIds, message \in UICommands : OnPortMessage(port, message)
    \/ SessionServe
    \/ \E now \in Times : LocalServe(now)
    \/ OnAlarm
    \/ OnStartup
    \/ OnInstalled
    \/ \E ws \in WsIds : WsOpen(ws)
    \/ \E ws \in WsIds : WsConnectFail(ws)
    \/ \E ws \in WsIds : WsClosing(ws)
    \/ \E ws \in WsIds, failed \in BOOLEAN : WsClose(ws, failed)
    \/ \E ws \in WsIds, frame \in Frames, now \in Times : WsMessage(ws, frame, now)

Spec == Init /\ [][Next]_vars

\* =================================================================== claims
Last(q) == q[Len(q)]

Connecting == {ws \in WsIds : readyState[ws] = CONNECTING}

\* C1 (as claimed): at no reachable state are two connect attempts in flight;
\* concurrent getWebSocket() calls share the one pending attempt.
C1_OneAttemptInFlight == Cardinality(Connecting) <= 1

\* the text a transcript line carries after its "[HH:MM:SS] " prefix
LineText(line) == SubSeq(line, 12, Len(line))

\* the transcript holds exactly one line per text of texts, in that order
HoldsLines(transcript, texts) ==
    IF texts = <<>> THEN ~Truthy(transcript)
    ELSE LET lines == SplitLines(transcript)
         IN  /\ Len(lines) = Len(texts)
             /\ \A i \in 1..Len(texts) : LineText(lines[i]) = texts[i]

\* C2 (as claimed): with no CLEAR_TRANSCRIPT or reset, once no store request
\* is pending the durable transcript has one line per final transcript
\* message routed, in arrival order, under every interleaving of the reads
\* and writes of updateTranscriptStorage.
C2_TranscriptKeepsEveryLine ==
    (~wiped /\ localQ = <<>>) => HoldsLines(local.transcript, finals)

\* the step is WsMessage for frame: only WsMessage spends a frame, and it
\* records the frame it handles
Handles(frame) == budget'.frames = budget.frames - 1 /\ lastFrame' = frame

ObjectFrames == {f \in Frames : f.text = "json" /\ f.value.json = "object"}

\* C3 (as claimed): the dispatch rules fire independently; handling a message
\* with status error always writes Session.isRecording = false, whatever its
\* action field is.
C3_ErrorAlwaysClearsFlag ==
    [][\A frame \in ObjectFrames :
          (Handles(frame) /\ frame.value.status = "error")
              => /\ sessionQ' # <<>>
                 /\ Last(sessionQ').op = "set"
                 /\ Last(sessionQ').items.isRecording = "false"]_vars

\* the calls suspended on the promise of ws
Suspended(q, ws) == SelectSeq(q, LAMBDA a : a.ws = ws)

Repeat(x, n) == [i \in 1..n |-> x]

FlagFalse == [op |-> "set", items |-> [isRecording |-> "false"]]

\* number of suspended sends that end in this step without a transmission
FailedSends(ws) ==
    IF outbound'[ws] = outbound[ws]
    THEN Len(Suspended(awaiting, ws)) - Len(Suspended(awaiting', ws))
    ELSE 0

\* C4: whenever sends fail because the connect attempt they await is
\* rejected, each failed send passes one synthetic error envelope to the
\* observer broadcast and queues Session.isRecording = false; nothing else is
\* posted or written (no exception escapes the send).
C4_SendFailureIsReported ==
    [][\A ws \in WsIds :
          FailedSends(ws) > 0
              => /\ sessionQ' = sessionQ \o Repeat(FlagFalse, FailedSends(ws))
                 /\ IF popupPort # 0
                    THEN portInbox' = [portInbox EXCEPT ![popupPort] =
                             @ \o Repeat(NativeAppMessage(ConnectError), FailedSends(ws))]
                    ELSE portInbox' = portInbox]_vars

InInbox(port, envelope) ==
    \E i \in 1..Len(portInbox[port]) : portInbox[port][i] = envelope

NativeErrorIn(port) ==
    \E i \in 1..Len(portInbox[port]) :
        /\ portInbox[port][i].type = "NATIVE_APP_MESSAGE"
        /\ portInbox[port][i].data.status = "error"
        /\ portInbox[port][i].data # ConnectError

\* C4 witness: a popup has received the connectivity error, no native error,
\* and the forced flag has been stored
C4_Witness ==
    \E port \in PortIds :
        /\ InInbox(port, NativeAppMessage(ConnectError))
        /\ ~NativeErrorIn(port)
        /\ session.isRecording = "false"
        /\ \E ws \in WsIds : readyState[ws] = CLOSED

Untouched ==
    UNCHANGED <<portInbox, session, local, sessionQ, localQ, readyState,
                nativeWebSocket, connectionPromise, alarm>>

\* C5 (as claimed): a frame that cannot be parsed as a JSON object message
\* is dropped: no state change, nothing sent to the observer, connection
\* still usable.
C5_NonObjectFrameDropped ==
    [][\A frame \in Frames \ ObjectFrames : Handles(frame) => Untouched]_vars

\* the frames whose handling throws: not JSON text, or the JSON text null
ThrowingFrames ==
    {f \in Frames : JSONParse(f).threw \/ JSONParse(f).value.json = "null"}

\* C5 (amended): a frame that is not JSON text, or is the JSON text null, is
\* dropped: handling it changes neither the session flag nor the durable
\* transcript or summary, queues no store request, posts nothing to the
\* observer and leaves the connection open.
C5_ThrowingFrameDropped ==
    [][\A frame \in ThrowingFrames : Handles(frame) => Untouched]_vars

\* C5 witness: a throwing frame has been handled on the open shared socket
\* while a popup was attached, and the popup holds nothing but INITIAL_STATE
C5_Witness ==
    /\ lastFrame \in ThrowingFrames
    /\ nativeWebSocket # 0 /\ readyState[nativeWebSocket] = OPEN
    /\ popupPort # 0
    /\ Len(portInbox[popupPort]) = 1
    /\ portInbox[popupPort][1].type = "INITIAL_STATE"
    /\ sessionQ = <<>> /\ localQ = <<>>

\* the frames whose value the handler reads: objects and scalars
ReadableFrames == Frames \ ThrowingFrames

\* C6: every inbound message the handler parses and reads is forwarded
\* exactly once, as a NATIVE_APP_MESSAGE envelope carrying the whole message,
\* at the end of the inbox of the attached observer (so envelopes are in
\* arrival order), whether or not a dispatch rule also queued a store request.
C6_ForwardedOnceInOrder ==
    [][\A frame \in ReadableFrames :
          Handles(frame)
              => IF popupPort # 0
                 THEN portInbox' = [portInbox EXCEPT ![popupPort] =
                          Append(@, NativeAppMessage(frame.value))]
                 ELSE portInbox' = portInbox]_vars

\* C6 witness: two messages were forwarded in order to the attached popup,
\* the last one a final transcript that also queued a store read
C6_Witness ==
    /\ popupPort # 0
    /\ lastFrame \in ObjectFrames
    /\ lastFrame.value.action = "transcript"
    /\ Len(portInbox[popupPort]) >= 3
    /\ Last(portInbox[popupPort]) = NativeAppMessage(lastFrame.value)
    /\ portInbox[popupPort][Len(portInbox[popupPort]) - 1].type = "NATIVE_APP_MESSAGE"
    /\ localQ # <<>>

\* the requests a step adds to the session queue
NewSessionRequests ==
    IF Len(sessionQ') > Len(sessionQ)
    THEN SubSeq(sessionQ', Len(sessionQ) + 1, Len(sessionQ'))
    ELSE <<>>

\* the values a step asks to be written to Session.isRecording
FlagWrites ==
    {NewSessionRequests[i].items.isRecording :
        i \in {j \in 1..Len(NewSessionRequests) : NewSessionRequests[j].op = "set"}}

\* the kind of a step, read off the event it consumes
RouterStep == budget'.frames = budget.frames - 1
ResetStep == budget'.resets = budget.resets - 1
CommandStep == budget'.commands = budget.commands - 1
CloseStep ==
    \E ws \in WsIds : readyState[ws] \in {OPEN, CLOSING} /\ readyState'[ws] = CLOSED
ConnectFailStep ==
    \E ws \in WsIds : readyState[ws] = CONNECTING /\ readyState'[ws] = CLOSED

\* C7 (as claimed): Session.isRecording is written only by the Message
\* Router or by the startup/install resets.
C7_OnlyRouterOrResetWrites ==
    [][FlagWrites # {} => (RouterStep \/ ResetStep)]_vars

\* C7 (amended): Session.isRecording is written only by the Message Router,
\* by the startup/install resets, or by the Connection Manager's failure
\* paths (the close handler and the catch block of a failed send), and these
\* failure paths only write false; true is written only on a get_status
\* report with is_recording true; the handler of a UI command writes nothing.
C7_FlagWriters ==
    [][/\ FlagWrites # {} =>
              (RouterStep \/ ResetStep \/ CloseStep \/ ConnectFailStep)
       /\ "true" \in FlagWrites =>
              \E frame \in ObjectFrames :
                  /\ Handles(frame)
                  /\ frame.value.action = "get_status"
                  /\ frame.value.is_recording = "true"
       /\ CommandStep => (FlagWrites = {} /\ session' = session)]_vars

Transmitted(action) ==
    \E ws \in WsIds : \E i \in 1..Len(outbound[ws]) : outbound[ws][i][2] = action

\* C7 witness: start_capture has been transmitted and the flag is still not
\* true and no write of it is pending
C7_Witness ==
    /\ Transmitted("start_capture")
    /\ session.isRecording # "true"
    /\ sessionQ = <<>>

\* C8: the health-check alarm exists exactly while the stored flag is true
\* (storage changes are handled as they are served), and only the handling
\* of a storage change creates or clears it.
C8_TimerFollowsFlag ==
    /\ [](alarm <=> session.isRecording = "true")
    /\ [][alarm' # alarm => SessionServe]_vars

\* C8 witness: the flag was stored true and later false again, and the alarm
\* that fired in between is gone
C8_Witness ==
    /\ ~alarm
    /\ session.isRecording = "false"
    /\ Transmitted("ping")

\* C9 (as claimed): INITIAL_STATE is the first envelope a newly attached
\* observer receives.
C9_InitialStateFirst ==
    \A port \in PortIds :
        portInbox[port] # <<>> => portInbox[port][1].type = "INITIAL_STATE"

ClearCommand == [type |-> "CLEAR_TRANSCRIPT", config |-> "undefined"]

\* C10: handling CLEAR_TRANSCRIPT queues one write that empties both the
\* durable transcript and the durable summary, posts one cleared envelope to
\* the attached observer, and leaves the connection, the suspended and the
\* transmitted commands and Session.isRecording alone.
C10_ClearIsLocal ==
    [][\A port \in PortIds :
          OnPortMessage(port, ClearCommand)
              => /\ localQ' = Append(localQ,
                        [op |-> "set", items |-> [transcript |-> <<>>, summary |-> <<>>]])
                 /\ IF popupPort # 0
                    THEN portInbox' = [portInbox EXCEPT ![popupPort] =
                             Append(@, NativeAppMessage(Cleared))]
                    ELSE portInbox' = portInbox
                 /\ UNCHANGED <<readyState, nativeWebSocket, connectionPromise,
                                awaiting, outbound, session, sessionQ, alarm>>]_vars

\* C10 witness: a popup holds the cleared envelope, the store has served the
\* write and both durable fields are empty while a connection is open
C10_Witness ==
    /\ \E port \in PortIds : InInbox(port, NativeAppMessage(Cleared))
    /\ wiped
    /\ localQ = <<>>
    /\ local.transcript = <<>>
    /\ local.summary = <<>>
    /\ \E ws \in WsIds : readyState[ws] = OPEN

\* a startup/install reset has been handled: only the resets write the
\* session config
ResetHandled ==
    \/ session.config = "{}"
    \/ \E i \in 1..Len(sessionQ) :
           sessionQ[i].op = "set" /\ "config" \in DOMAIN sessionQ[i].items

\* the line updateTranscriptStorage formats for text at the time now
FormattedLine(text, now) ==
    <<"[">> \o ToLocaleTimeString(now) \o <<"]", " ">> \o text

\* C11 (as claimed): from any reachable state, pending appends included, after
\* a CLEAR_TRANSCRIPT followed by one final transcript message, once no store
\* request is pending the durable transcript is exactly the one formatted
\* line of that message.
C11_ClearThenFinalIsOneLine ==
    (wiped /\ ~ResetHandled /\ Len(finals) = 1 /\ localQ = <<>>)
        => \E now \in Times : local.transcript = FormattedLine(finals[1], now)

\* C12: the close event of a connection that was open clears the shared
\* connection reference and queues, as the last session write of the step,
\* Session.isRecording = false; the error event of a connect attempt clears
\* the shared reference and the in-flight marker.
C12_FailureClearsReference ==
    [][/\ CloseStep => /\ nativeWebSocket' = 0
                       /\ sessionQ' # <<>>
                       /\ Last(sessionQ') = FlagFalse
       /\ ConnectFailStep => /\ nativeWebSocket' = 0
                             /\ connectionPromise' = 0]_vars

\* C12 witness: the flag had been reported true; since then one connection
\* that was open has closed and one connect attempt has failed, both
\* references are empty and the flag is stored false
C12_Witness ==
    /\ lastFrame.value = StatusTrue
    /\ \E w1, w2 \in WsIds :
           /\ readyState[w1] = CLOSED /\ outbound[w1] # <<>>
           /\ readyState[w2] = CLOSED /\ outbound[w2] = <<>>
    /\ nativeWebSocket = 0
    /\ connectionPromise = 0
    /\ session.isRecording = "false"
    /\ sessionQ = <<>>

\* the WebSockets a step constructs
Started == {ws \in WsIds : readyState[ws] = NONE /\ readyState'[ws] # NONE}

AlarmStep == budget'.alarms = budget.alarms - 1

\* the step resumes the onConnect block after its read of the local store
AttachStep ==
    /\ localQ # <<>>
    /\ Head(localQ).op = "get"
    /\ Head(localQ).for = "attach"
    /\ localQ' = Tail(localQ)

\* a connect attempt is started only by a step that calls getWebSocket (a
\* relayed command, the startup commands of an attach, the alarm's ping), at
\* most one per step, and only when no open connection and no marker exist
OnlyCallsStartAttempts ==
    Started # {} => /\ CommandStep \/ AlarmStep \/ AttachStep
                    /\ Cardinality(Started) = 1
                    /\ StartsAttempt(Cur)
                    /\ \A ws \in Started : readyState'[ws] = CONNECTING

\* C13 (as claimed): after any connect attempt has failed or an open
\* connection has closed the in-flight marker is empty, so that the next
\* getWebSocket() call starts a fresh attempt; attempts are started only by
\* such calls.
C13_FailureEmptiesMarker ==
    [][/\ (CloseStep \/ ConnectFailStep) => connectionPromise' = 0
       /\ OnlyCallsStartAttempts]_vars

\* what getWebSocket() would return in the current state is usable: an open
\* connection, or the promise of an attempt that is still connecting (states
\* in which the call would construct a WebSocket beyond WsIds are skipped)
AcquireIsUsable ==
    (StartsAttempt(Cur) => NextWs(Cur) \in WsIds) =>
        LET g == getWebSocket(Cur)
        IN  IF g.settled THEN readyState[g.ws] = OPEN
            ELSE /\ g.m.readyState[g.ws] = CONNECTING
                 /\ g.m.connectionPromise = g.ws

\* C13 (amended): after a connect attempt has failed the in-flight marker is
\* empty; after an open connection has closed the marker is empty or still
\* designates the newer attempt that was in flight; in every state
\* getWebSocket() returns an open connection or the promise of an attempt
\* still connecting, never a failed handle or a closed connection; attempts
\* are started only by getWebSocket() calls.
C13_FailuresAreRecoverable ==
    /\ [][/\ ConnectFailStep => connectionPromise' = 0
          /\ CloseStep => \/ connectionPromise' = 0
                          \/ /\ connectionPromise' = connectionPromise
                             /\ readyState'[connectionPromise'] = CONNECTING
          /\ OnlyCallsStartAttempts]_vars
    /\ [](connectionPromise # 0 => readyState[connectionPromise] = CONNECTING)
    /\ []AcquireIsUsable

\* C13 witness: one connection that was open has closed, one attempt has
\* failed, and a later call has started a fresh attempt that is in flight
C13_Witness ==
    \E w1, w2, w3 \in WsIds :
        /\ readyState[w1] = CLOSED /\ outbound[w1] # <<>>
        /\ readyState[w2] = CLOSED /\ outbound[w2] = <<>>
        /\ w3 > w1 /\ w3 > w2
        /\ readyState[w3] = CONNECTING
        /\ connectionPromise = w3
        /\ nativeWebSocket = 0

\* the two writes of a startup/install reset
ResetSessionWrite ==
    [op |-> "set", items |-> [isRecording |-> "false", config |-> "{}"]]
ResetLocalWrite ==
    [op |-> "set", items |-> [transcript |-> <<>>, summary |-> <<>>]]

\* the step serves the request req at the head of the queue q
Serves(q, req) == q # <<>> /\ Head(q) = req /\ q' = Tail(q)

\* C14: a startup/install reset issues one session write and one local
\* write; when the session write completes the session holds isRecording
\* false and the empty config, and when the local write completes the
\* durable transcript and summary are both the empty string, whatever the
\* stores held before; on a cold start (no native message handled yet) the
\* four values are the reset values whenever no store request is pending.
C14_ResetEmptiesStores ==
    /\ []((ResetHandled /\ lastFrame = NoFrame /\ sessionQ = <<>> /\ localQ = <<>>)
            => /\ session = [isRecording |-> "false", config |-> "{}"]
               /\ local = [transcript |-> <<>>, summary |-> <<>>])
    /\ [][/\ ResetStep => /\ sessionQ' = Append(sessionQ, ResetSessionWrite)
                           /\ localQ' = Append(localQ, ResetLocalWrite)
          /\ Serves(sessionQ, ResetSessionWrite)
                 => session' = [isRecording |-> "false", config |-> "{}"]
          /\ Serves(localQ, ResetLocalWrite)
                 => local' = [transcript |-> <<>>, summary |-> <<>>]]_vars

\* C14 witness: a summary had been routed before the reset; both reset
\* writes have completed and the four values are the reset values
C14_Witness ==
    /\ ResetHandled
    /\ lastFrame.value.action = "summary_update"
    /\ sessionQ = <<>> /\ localQ = <<>>
    /\ session = [isRecording |-> "false", config |-> "{}"]
    /\ local = [transcript |-> <<>>, summary |-> <<>>]

\* C15 (as claimed): when a native message with status error is handled
\* while Session.isRecording is true, the write Session.isRecording = false
\* is issued and the attached observer receives the error envelope; when
\* that write completes the flag is false and the health-check alarm is
\* stopped.
C15_ErrorStopsRecording ==
    [][/\ \A frame \in ObjectFrames :
              (Handles(frame) /\ frame.value.status = "error"
                   /\ session.isRecording = "true")
                  => /\ sessionQ' = Append(sessionQ, FlagFalse)
                     /\ popupPort # 0 =>
                            portInbox'[popupPort] =
                                Append(portInbox[popupPort],
                                       NativeAppMessage(frame.value))
       /\ Serves(sessionQ, FlagFalse)
              => (session'.isRecording = "false" /\ ~alarm')]_vars

\* the step resumes the onConnect block of port and posts INITIAL_STATE only
PostsInitialState(port) ==
    /\ AttachStep
    /\ Head(localQ).port = port
    /\ Len(portInbox'[port]) = Len(portInbox[port]) + 1
    /\ Last(portInbox'[port]).type = "INITIAL_STATE"

\* C16: a port's disconnect empties the observer reference; while the
\* reference is empty no envelope of a broadcast is posted anywhere; a port
\* only ever receives the INITIAL_STATE of its own attach and the broadcasts
\* made while it is the referenced observer, so a port that has not attached
\* yet holds nothing and a later observer gets no envelope of an earlier
\* broadcast.
C16_DetachedBroadcastsDropped ==
    /\ [](\A port \in PortIds : portState[port] = NONE => portInbox[port] = <<>>)
    /\ [][/\ (\E port \in PortIds : portState[port] = OPEN /\ portState'[port] = CLOSED)
                 => popupPort' = 0
          /\ \A port \in PortIds :
                 portInbox'[port] # portInbox[port]
                     => \/ PostsInitialState(port)
                        \/ /\ popupPort = port
                           /\ portState[port] = OPEN]_vars

\* C16 witness: a message was handled after the first observer detached and
\* before the second attached; neither holds its envelope, and the second
\* has received its INITIAL_STATE
C16_Witness ==
    /\ portState[1] = CLOSED
    /\ portState[2] = OPEN
    /\ popupPort = 2
    /\ lastFrame \in ReadableFrames
    /\ ~InInbox(1, NativeAppMessage(lastFrame.value))
    /\ ~InInbox(2, NativeAppMessage(lastFrame.value))
    /\ portInbox[2] # <<>>
    /\ portInbox[2][1].type = "INITIAL_STATE"

StatusFrames == {f \in ObjectFrames : f.value.action = "get_status"}

\* C17: handling a get_status message issues exactly one session write, of
\* Session.isRecording = true when its is_recording field is the boolean
\* true and of false when the field is false, a string, a number or absent.
C17_StatusIsStrictlyTrue ==
    [][\A frame \in StatusFrames :
          Handles(frame)
              => sessionQ' = Append(sessionQ,
                     [op |-> "set", items |-> [isRecording |->
                         IF frame.value = StatusTrue \/ frame.value = StatusTrueError
                         THEN "true" ELSE "false"]])]_vars

\* C17 witness: the flag had been true (the alarm fired a ping); a get_status
\* message whose is_recording is the string 'true' was handled next and the
\* flag is stored false
C17_Witness ==
    /\ lastFrame.value = StatusString
    /\ Transmitted("ping")
    /\ session.isRecording = "false"
    /\ sessionQ = <<>>
    /\ ~alarm

GetStatusCommand == [type |-> "GET_STATUS", config |-> "undefined"]

FlagWrite(v) == [op |-> "set", items |-> [isRecording |-> v]]

\* C18: handling GET_STATUS and handling a get_status report neither change
\* the durable transcript and summary nor queue a request to the local
\* store; when the write of a report completes the flag has the reported
\* value, and when the flag already had that value the completion changes
\* nothing (flag, alarm, badge and icon stay as they are).
C18_StatusIsIdempotent ==
    [][/\ (\/ \E port \in PortIds : OnPortMessage(port, GetStatusCommand)
           \/ \E frame \in StatusFrames : Handles(frame))
              => UNCHANGED <<local, localQ>>
       /\ \A v \in {"true", "false"} :
              Serves(sessionQ, FlagWrite(v))
                  => /\ session'.isRecording = v
                     /\ session.isRecording = v
                            => UNCHANGED <<session, alarm, badge, icon>>]_vars

\* the number of elements of q that satisfy Test
Count(q, Test(_)) == Len(SelectSeq(q, Test))

\* C18 witness: get_status was transmitted twice (once for the attach, once
\* for GET_STATUS), two reports with is_recording true were routed to the
\* popup, the flag is true and the durable fields were never written
C18_Witness ==
    /\ \E ws \in WsIds :
           Count(outbound[ws], LAMBDA d : d[2] = "get_status") >= 2
    /\ \E port \in PortIds :
           Count(portInbox[port], LAMBDA e : e = NativeAppMessage(StatusTrue)) = 2
    /\ session.isRecording = "true"
    /\ sessionQ = <<>> /\ localQ = <<>>
    /\ local = [transcript |-> undefined, summary |-> undefined]

\* the block the summary_update rule formats for text at the time now
SummaryBlock(text, now) ==
    <<"[">> \o ToLocaleTimeString(now) \o <<"]", " ", NL, " ">> \o text

SummaryFrames == {f \in ObjectFrames : f.value.action = "summary_update"}

\* the requests a step adds to the local queue, when it serves none
NewLocalRequests ==
    IF Len(localQ') > Len(localQ)
    THEN SubSeq(localQ', Len(localQ) + 1, Len(localQ'))
    ELSE <<>>

\* C19 (as claimed): the durable summary is overwritten, not appended: with
\* no CLEAR_TRANSCRIPT or reset, when the last message routed is a
\* summary_update and no store request is pending, the summary is exactly the
\* one block built from that message's text; routing a summary_update never
\* writes the durable transcript.
C19_SummaryIsLastSnapshot ==
    /\ []((~wiped /\ lastFrame \in SummaryFrames /\ localQ = <<>>)
            => \E now \in Times :
                   local.summary = SummaryBlock(lastFrame.value.text, now))
    /\ [][\A frame \in SummaryFrames :
             Handles(frame)
                 => /\ local' = local
                    /\ \A i \in 1..Len(NewLocalRequests) :
                           /\ NewLocalRequests[i].op = "set"
                           /\ DOMAIN NewLocalRequests[i].items = {"summary"}]_vars

\* C20 (as claimed): when the close event (with or without a preceding
\* error event) of an older connection fires while the shared reference
\* designates a newer connection, the reference and the in-flight marker are
\* left as they are and no write of Session.isRecording is issued.
C20_StaleEventsSpareNewer ==
    [][\A old \in WsIds :
          (/\ readyState[old] \in {OPEN, CLOSING}
           /\ readyState'[old] = CLOSED
           /\ nativeWebSocket > old)
              => /\ nativeWebSocket' = nativeWebSocket
                 /\ connectionPromise' = connectionPromise
                 /\ FlagWrites = {}]_vars

\* C21 (as claimed): when a second observer has attached while the first was
\* still attached, the detach of the first leaves the observer reference at
\* the second: a port's disconnect never clears a reference that designates
\* another port that is still attached.
C21_DetachSparesNewerObserver ==
    [][\A first \in PortIds :
          (/\ portState[first] = OPEN
           /\ portState'[first] = CLOSED
           /\ popupPort # 0
           /\ popupPort # first
           /\ portState[popupPort] = OPEN)
              => popupPort' = popupPort]_vars

\* no write of the session store is pending
NoSessionWritePending == \A i \in 1..Len(sessionQ) : sessionQ[i].op # "set"

\* C22 (as claimed): recording implies a live connection: in every state
\* where no session write is pending and Session.isRecording is true, the
\* shared reference designates a connection that has not closed (open, or in
\* its closing handshake with the close event still to come); whenever the
\* reference has been cleared by an error or a close the flag is false.
C22_RecordingImpliesConnection ==
    (NoSessionWritePending /\ session.isRecording = "true")
        => /\ nativeWebSocket # 0
           /\ readyState[nativeWebSocket] \in {OPEN, CLOSING}

=============================================================================
